---- MODULE Spec2Model ----
(***************************************************************************)
(* A model of install.py, the user-space installer of pyker.               *)
(*                                                                         *)
(* One run of main() is a walk of pc through the calls of main(), in the   *)
(* order of the source.  The state is what the installer can observe or    *)
(* change: the home directory (directories, files, the text of ~/.zshrc),  *)
(* what the process printed, which subprocesses it started, which tools    *)
(* it looked up on the search path, and how it ended.  What the installer  *)
(* reads from its surroundings (effective uid, interpreter version,        *)
(* whether psutil imports, the search path, the working directory, the     *)
(* outcome of each system call) is an input of the step that reads it.     *)
(* Rerun starts the installer again on the home directory the previous     *)
(* run left behind.                                                        *)
(***************************************************************************)
EXTENDS Integers, Sequences, FiniteSets, TLC

\* ------------------------------------------------------------------ bounds
\* The installer is started at most MaxRuns times on the same home directory.
MaxRuns == 3
\* ~/.zshrc holds at most MaxChunks pieces of text before the first run.
MaxChunks == 2

\* ------------------------------------------------------------ paths, text
\* A path is the sequence of its components below the root.
Home == <<"home", "user">>
LocalBin == Home \o <<".local", "bin">>
TargetPath == LocalBin \o <<"pyker">>
PykerDir == Home \o <<".pyker">>
LogsDir == PykerDir \o <<"logs">>
\* The system-wide directory of bash completions.
SystemBashCompDir == <<"usr", "share", "bash-completion", "completions">>
BashCompDir == Home \o <<".local", "share", "bash-completion", "completions">>
BashCompTarget == BashCompDir \o <<"pyker">>
OhMyZsh == Home \o <<".oh-my-zsh">>
OhMyZshCompDir == OhMyZsh \o <<"completions">>
ZshSiteDir == Home \o <<".local", "share", "zsh", "site-functions">>
Zshrc == Home \o <<".zshrc">>

\* str(path): every component preceded by the separator.
RECURSIVE PathStr(_)
PathStr(p) ==
    IF p = <<>> THEN <<>> ELSE <<"/", Head(p)>> \o PathStr(Tail(p))

\* The elements of a sequence.
Range(q) == {q[i] : i \in DOMAIN q}

\* Python's `needle in hay` on strings: needle occurs as a contiguous piece.
Contains(needle, hay) ==
    \E i \in 0..(Len(hay) - Len(needle)) :
        \A k \in 1..Len(needle) : hay[i + k] = needle[k]

\* Number of (possibly overlapping) occurrences of needle in hay.
Occurrences(needle, hay) ==
    Cardinality({i \in 0..(Len(hay) - Len(needle)) :
                    \A k \in 1..Len(needle) : hay[i + k] = needle[k]})

\* Path.mkdir(parents=True, exist_ok=True): the directory and every missing
\* ancestor below the home directory.
Mkdir(dirs, p) == dirs \cup {SubSeq(p, 1, k) : k \in Len(Home)..Len(p)}

\* sys.version_info < (major, minor): tuples compare lexicographically.
VersionLess(v, w) == v[1] < w[1] \/ (v[1] = w[1] /\ v[2] < w[2])

\* ----------------------------------------------------- program constants
Mode0755 == 493
ExitOk == 0
ExitFail == 1

\* install_methods: the system package managers, in the order of the list.
InstallMethods == <<"apt", "yum", "dnf", "pacman">>

\* The remediation text printed when every method failed.
RemediationText ==
    << "Could not install psutil automatically",
       "Please install psutil manually using one of these methods:",
       "sudo apt install python3-psutil",
       "sudo yum install python3-psutil",
       "sudo dnf install python3-psutil",
       "sudo pacman -S python-psutil",
       "pipx install psutil",
       "python3 -m venv venv && venv/bin/pip install psutil" >>

\* ------------------------------------------------------ input domains
Euids == {0, 1000}
Versions == {<<2, 7>>, <<3, 5>>, <<3, 6>>, <<3, 11>>}
Strategies == {"pip", "apt", "yum", "dnf", "pacman", "pipx"}
\* What the search path may hold of the tools install_psutil uses: nothing,
\* one distribution's manager with or without sudo, pipx alone, several, all.
SearchPaths == { {}, {"pipx"}, {"apt"}, {"sudo", "apt"}, {"sudo", "yum", "dnf"},
                 {"sudo", "pacman", "pipx"},
                 {"sudo", "apt", "yum", "dnf", "pacman", "pipx"} }
\* The strategies whose install command would exit with status 0: none, any
\* single one, all.
ExitZeroSets == {{}, Strategies} \cup {{s} : s \in Strategies}
\* Modes the payload pyker.py may have in the working directory (0644, 0755).
SourceModes == {420, 493}

\* ------------------------------------------------------------- the state
VARIABLES
    pc,          \* the call of main() that runs next, or "done" / "aborted"
    failed_at,   \* the call in which the run ended, "" while none has
    raised,      \* what ended the run: "SystemExit" or the uncaught exception
    exit_code,   \* the exit code of the process, -1 while it runs
    run,         \* how many times the installer has been started
    euid,        \* os.geteuid() as check_not_root read it (-1: not read)
    version,     \* sys.version_info[:2] as check_python read it
    importable,  \* whether `import psutil` succeeded in install_psutil
    on_path,     \* the tools on the search path when install_psutil went
                 \* past its presence check
    payload,     \* mode of ./pyker.py as install_pyker found it (0: absent,
                 \* -1: not read)
    path_env,    \* os.environ['PATH'] as check_path read it
    path_ok,     \* the flag check_path returned to main
    dirs,        \* the directories that exist at or below the home directory
    files,       \* the files the installer copies to, when they exist
    pyker_mode,  \* the mode of ~/.local/bin/pyker (0: no such file)
    zshrc,       \* ~/.zshrc: [exists, text]
    zshrc_first, \* ~/.zshrc as it was before the first run
    subprocs,    \* the subprocesses this run started, in order
    probes,      \* the names this run looked up with shutil.which, in order
    zsh_on_path, \* what shutil.which("zsh") gave setup_completions in this
                 \* run (FALSE while it has not been asked)
    ops,         \* the file operations this run performed, in order
    out          \* the messages this run printed, in order

vars == << pc, failed_at, raised, exit_code, run, euid, version, importable,
           on_path, payload, path_env, path_ok, dirs, files, pyker_mode,
           zshrc, zshrc_first, subprocs, probes, zsh_on_path, ops, out >>

Steps == << "check_not_root", "check_python", "install_psutil",
            "install_pyker", "create_pyker_dir", "setup_completions",
            "check_path", "summary" >>

StepIndex(s) == CHOOSE i \in 1..Len(Steps) : Steps[i] = s

\* The call s of main() has run in this run (it returned or ended the run).
Acted(s) ==
    \/ pc = "done"
    \/ pc = "aborted" /\ StepIndex(failed_at) >= StepIndex(s)
    \/ pc \notin {"done", "aborted"} /\ StepIndex(pc) > StepIndex(s)

\* The call s of main() has returned to main() in this run.
Returned(s) ==
    \/ pc = "done"
    \/ pc = "aborted" /\ StepIndex(failed_at) > StepIndex(s)
    \/ pc \notin {"done", "aborted"} /\ StepIndex(pc) > StepIndex(s)

\* ------------------------------------------------------- install_psutil
\* subprocess.run(cmd, check=True, capture_output=..., [stderr=...]).
\* capture_output is a keyword of run() since Python 3.7; before, it reaches
\* Popen(), which rejects it.  run() refuses capture_output together with an
\* explicit stdout or stderr before it starts anything.  A command whose
\* executable is missing is never started.  With check=True a non-zero exit
\* status raises CalledProcessError.
subprocess_run(ver, capture_output, stderr_given, exe_found, exit_zero) ==
    IF capture_output /\ VersionLess(ver, <<3, 7>>) THEN "TypeError"
    ELSE IF capture_output /\ stderr_given THEN "ValueError"
    ELSE IF ~exe_found THEN "FileNotFoundError"
    ELSE IF exit_zero THEN "ok"
    ELSE "CalledProcessError"

\* The subprocess was started (it ran and exited).
Started(result) == result \in {"ok", "CalledProcessError"}

\* Lines 81-101: pipx, then exhaustion.  acc = [calls, probes, out].
try_pipx(ver, avail, exit_zero, acc) ==
    LET probed == [acc EXCEPT !.probes = @ \o <<"pipx">>]
        r == subprocess_run(ver, TRUE, FALSE, TRUE, "pipx" \in exit_zero)
        tried == [probed EXCEPT
                    !.out = @ \o <<"Trying to install via pipx...">>,
                    !.calls = IF Started(r) THEN @ \o <<"pipx">> ELSE @]
        exhausted(a) == [a EXCEPT !.out = @ \o RemediationText]
                            @@ [exc |-> "SystemExit"]
    IN  IF "pipx" \in avail
        THEN IF r = "ok"
             THEN [tried EXCEPT !.out = @ \o <<"psutil installed via pipx">>]
                      @@ [exc |-> "none"]
             ELSE IF r = "CalledProcessError"
             THEN exhausted(tried)
             ELSE tried @@ [exc |-> r]
        ELSE exhausted(probed)

\* Lines 71-79: the loop over install_methods, from its i-th entry on.
RECURSIVE try_managers(_, _, _, _, _)
try_managers(i, ver, avail, exit_zero, acc) ==
    IF i > Len(InstallMethods)
    THEN try_pipx(ver, avail, exit_zero, acc)
    ELSE
    LET m == InstallMethods[i]
        probed == [acc EXCEPT !.probes = @ \o <<m>>]
        r == subprocess_run(ver, TRUE, FALSE, "sudo" \in avail, m \in exit_zero)
        tried == [probed EXCEPT
                    !.out = @ \o <<"Trying to install via " \o m>>,
                    !.calls = IF Started(r) THEN @ \o <<"sudo " \o m>> ELSE @]
    IN  IF m \in avail
        THEN IF r = "ok"
             THEN [tried EXCEPT !.out = @ \o <<"psutil installed via " \o m>>]
                      @@ [exc |-> "none"]
             ELSE IF r = "CalledProcessError"
             THEN try_managers(i + 1, ver, avail, exit_zero, tried)
             ELSE tried @@ [exc |-> r]
        ELSE try_managers(i + 1, ver, avail, exit_zero, probed)

\* install_psutil() without its presence check and its pip attempt.
install_psutil_no_presence_check(ver, imp, avail, exit_zero) ==
    try_managers(1, ver, avail, exit_zero,
                 [calls |-> <<>>, probes |-> <<>>,
                  out |-> <<"Installing psutil dependency...">>])

\* install_psutil(): ver is the interpreter version, imp whether psutil
\* imports, avail the tools on the search path, exit_zero the strategies whose
\* install command would exit with status 0.  The result is
\* [exc, calls, probes, out]: exc is "none" when the function returns.
install_psutil(ver, imp, avail, exit_zero) ==
    LET acc0 == [calls |-> <<>>, probes |-> <<>>,
                 out |-> <<"Installing psutil dependency...">>]
        r == subprocess_run(ver, TRUE, TRUE, TRUE, "pip" \in exit_zero)
        tried == [acc0 EXCEPT
                    !.calls = IF Started(r) THEN @ \o <<"pip --user">> ELSE @]
    IN  IF imp
        THEN [acc0 EXCEPT !.out = @ \o <<"psutil is already installed">>]
                 @@ [exc |-> "none"]
        ELSE IF r = "ok"
        THEN [tried EXCEPT !.out = @ \o <<"psutil installed via pip --user">>]
                 @@ [exc |-> "none"]
        ELSE IF r = "CalledProcessError"
        THEN try_managers(1, ver, avail, exit_zero, tried)
        ELSE tried @@ [exc |-> r]

\* -------------------------------------------------- check_not_root, check_python
\* check_not_root(): the result is [exc, out].
check_not_root_any_uid(uid) == [exc |-> "none", out |-> <<>>]

check_not_root(uid) ==
    IF uid = 0
    THEN [exc |-> "SystemExit",
          out |-> << "Error: This script should NOT be run as root",
                     "Pyker works in user space and doesn't require sudo" >>]
    ELSE [exc |-> "none", out |-> <<>>]

\* check_python() comparing the major version only.
check_python_major_only(ver) ==
    IF ver[1] < 3
    THEN [exc |-> "SystemExit",
          out |-> <<"Error: Python 3.6 or higher is required">>]
    ELSE [exc |-> "none", out |-> <<"Python 3 is available">>]

\* check_python(): the result is [exc, out].
check_python(ver) ==
    IF VersionLess(ver, <<3, 6>>)
    THEN [exc |-> "SystemExit",
          out |-> <<"Error: Python 3.6 or higher is required">>]
    ELSE [exc |-> "none", out |-> <<"Python 3 is available">>]

\* ------------------------------------------------------------ file system
\* A system call that creates or writes may fail (a path component that is a
\* regular file, a read-only or full file system, missing permission).  Each
\* step takes as input fault, the one call of the step that fails, if any.
\* mkdir(parents=True, exist_ok=True) of a directory that exists succeeds.
MkdirFails(ds, p, fault, name) == fault = name /\ p \notin ds

PykerFaults == {"none", "mkdir", "copy2", "chmod"}
DirFaults == {"none", "mkdir"}
CompletionFaults == {"none", "bash_mkdir", "bash_copy2", "zsh_mkdir",
                     "zsh_copy2", "zshrc_read", "zshrc_append"}

\* setup_local_bin(): the result is [exc, dirs, ops, out].
setup_local_bin(ds, fault) ==
    IF MkdirFails(ds, LocalBin, fault, "mkdir")
    THEN [exc |-> "OSError", dirs |-> ds, ops |-> <<>>, out |-> <<>>]
    ELSE [exc |-> "none", dirs |-> Mkdir(ds, LocalBin),
          ops |-> << <<"mkdir", LocalBin>> >>,
          out |-> <<"~/.local/bin directory ready">>]

\* Lines 124-130 without the chmod: the target keeps the mode copy2 gave it.
copy_payload_no_chmod(mode, src_mode, fault) ==
    IF fault = "copy2"
    THEN [exc |-> "SystemExit", copied |-> FALSE, mode |-> mode, ops |-> <<>>,
          out |-> <<"Error copying file">>]
    ELSE [exc |-> "none", copied |-> TRUE, mode |-> src_mode,
          ops |-> << <<"copy2", TargetPath>> >>,
          out |-> <<"pyker installed to ~/.local/bin/pyker">>]

\* Lines 124-130 of install_pyker(): copy2, then chmod, under one try.
\* mode is the mode of the target before, src_mode the mode of pyker.py.
\* shutil.copy2 gives the target the mode of the source.  The result is
\* [exc, copied, mode, ops, out].
copy_payload(mode, src_mode, fault) ==
    IF fault = "copy2"
    THEN [exc |-> "SystemExit", copied |-> FALSE, mode |-> mode, ops |-> <<>>,
          out |-> <<"Error copying file">>]
    ELSE IF fault = "chmod"
    THEN [exc |-> "SystemExit", copied |-> TRUE, mode |-> src_mode,
          ops |-> << <<"copy2", TargetPath>> >>,
          out |-> <<"Error copying file">>]
    ELSE [exc |-> "none", copied |-> TRUE, mode |-> Mode0755,
          ops |-> << <<"copy2", TargetPath>>, <<"chmod", TargetPath>> >>,
          out |-> <<"pyker installed to ~/.local/bin/pyker">>]

\* install_pyker() creating ~/.local/bin before it looks for pyker.py.
install_pyker_mkdir_first(fs, src_mode, fault) ==
    LET out0 == <<"Installing Pyker...">>
        lb == setup_local_bin(fs.dirs, fault)
        cp == copy_payload(fs.mode, src_mode, fault)
    IN  IF lb.exc # "none"
        THEN [exc |-> lb.exc, dirs |-> lb.dirs, files |-> fs.files,
              mode |-> fs.mode, ops |-> lb.ops, out |-> out0 \o lb.out]
        ELSE IF src_mode = 0
        THEN [exc |-> "SystemExit", dirs |-> lb.dirs, files |-> fs.files,
              mode |-> fs.mode, ops |-> lb.ops,
              out |-> out0 \o lb.out
                      \o << "Error: pyker.py not found in current directory",
                            "Please run this script from the pyker directory" >>]
        ELSE [exc |-> cp.exc, dirs |-> lb.dirs,
              files |-> IF cp.copied THEN fs.files \cup {TargetPath} ELSE fs.files,
              mode |-> cp.mode, ops |-> lb.ops \o cp.ops,
              out |-> out0 \o lb.out \o cp.out]

\* install_pyker() copying without the call of setup_local_bin().
install_pyker_no_local_bin(fs, src_mode, fault) ==
    LET out0 == <<"Installing Pyker...">>
        cp == copy_payload(fs.mode, src_mode, fault)
    IN  IF src_mode = 0
        THEN [exc |-> "SystemExit", dirs |-> fs.dirs, files |-> fs.files,
              mode |-> fs.mode, ops |-> <<>>,
              out |-> out0 \o << "Error: pyker.py not found in current directory",
                                  "Please run this script from the pyker directory" >>]
        ELSE [exc |-> cp.exc, dirs |-> fs.dirs,
              files |-> IF cp.copied THEN fs.files \cup {TargetPath} ELSE fs.files,
              mode |-> cp.mode, ops |-> cp.ops, out |-> out0 \o cp.out]

\* install_pyker(): fs = [dirs, files, mode], src_mode the mode of ./pyker.py
\* (0: no such file).  The result is [exc, dirs, files, mode, ops, out].
install_pyker(fs, src_mode, fault) ==
    LET out0 == <<"Installing Pyker...">>
        lb == setup_local_bin(fs.dirs, fault)
        cp == copy_payload(fs.mode, src_mode, fault)
    IN  IF src_mode = 0
        THEN [exc |-> "SystemExit", dirs |-> fs.dirs, files |-> fs.files,
              mode |-> fs.mode, ops |-> <<>>,
              out |-> out0 \o << "Error: pyker.py not found in current directory",
                                  "Please run this script from the pyker directory" >>]
        ELSE IF lb.exc # "none"
        THEN [exc |-> lb.exc, dirs |-> lb.dirs, files |-> fs.files,
              mode |-> fs.mode, ops |-> lb.ops, out |-> out0 \o lb.out]
        ELSE [exc |-> cp.exc, dirs |-> lb.dirs,
              files |-> IF cp.copied THEN fs.files \cup {TargetPath} ELSE fs.files,
              mode |-> cp.mode, ops |-> lb.ops \o cp.ops,
              out |-> out0 \o lb.out \o cp.out]

\* create_pyker_dir() with mkdir(parents=True) and no exist_ok: a directory
\* that exists raises FileExistsError.
create_pyker_dir_no_exist_ok(ds, fault) ==
    IF LogsDir \in ds \/ MkdirFails(ds, LogsDir, fault, "mkdir")
    THEN [exc |-> "OSError", dirs |-> ds, ops |-> <<>>, out |-> <<>>]
    ELSE [exc |-> "none", dirs |-> Mkdir(ds, LogsDir),
          ops |-> << <<"mkdir", LogsDir>> >>,
          out |-> <<"~/.pyker directory structure created">>]

\* create_pyker_dir(): the result is [exc, dirs, ops, out].
create_pyker_dir(ds, fault) ==
    IF MkdirFails(ds, LogsDir, fault, "mkdir")
    THEN [exc |-> "OSError", dirs |-> ds, ops |-> <<>>, out |-> <<>>]
    ELSE [exc |-> "none", dirs |-> Mkdir(ds, LogsDir),
          ops |-> << <<"mkdir", LogsDir>> >>,
          out |-> <<"~/.pyker directory structure created">>]

\* ------------------------------------------------------ setup_completions
\* The line appended to ~/.zshrc for the completion directory d.
FpathLine(d) == <<"fpath=(">> \o PathStr(d) \o <<" $fpath)">>

\* The state threaded through setup_completions():
\* [exc, dirs, files, zshrc, ops, probes, out].
Raise(st) == [st EXCEPT !.exc = "OSError"]

\* The guard comparing the whole file with the directory string.
NotInContent_whole_file(d, text) == text # PathStr(d)

\* `str(zsh_comp_dir) not in zshrc_content`
NotInContent(d, text) == ~Contains(PathStr(d), text)

\* Lines 160-169 with the test of the source file before the mkdir.
bash_completion_source_first(st, bash_src, fault) ==
    LET made == [st EXCEPT !.dirs = Mkdir(@, BashCompDir),
                           !.ops = @ \o << <<"mkdir", BashCompDir>> >>]
    IN  IF ~bash_src
        THEN [st EXCEPT
                !.out = @ \o <<"Bash completion file not found (optional)">>]
        ELSE IF MkdirFails(st.dirs, BashCompDir, fault, "bash_mkdir")
        THEN Raise(st)
        ELSE IF fault = "bash_copy2"
        THEN Raise(made)
        ELSE [made EXCEPT
                !.files = @ \cup {BashCompTarget},
                !.ops = @ \o << <<"copy2", BashCompTarget>> >>,
                !.out = @ \o <<"Bash completion installed">>]

\* Lines 160-169: the bash completion.
bash_completion(st, bash_src, fault) ==
    LET made == [st EXCEPT !.dirs = Mkdir(@, BashCompDir),
                           !.ops = @ \o << <<"mkdir", BashCompDir>> >>]
    IN  IF MkdirFails(st.dirs, BashCompDir, fault, "bash_mkdir")
        THEN Raise(st)
        ELSE IF bash_src
        THEN IF fault = "bash_copy2"
             THEN Raise(made)
             ELSE [made EXCEPT
                     !.files = @ \cup {BashCompTarget},
                     !.ops = @ \o << <<"copy2", BashCompTarget>> >>,
                     !.out = @ \o <<"Bash completion installed">>]
        ELSE [made EXCEPT
                !.out = @ \o <<"Bash completion file not found (optional)">>]

\* Lines 187-196 without the test of the oh-my-zsh directory on line 187.
register_fpath_no_framework_check(st, d, fault) ==
    IF ~st.zshrc.exists
    THEN st
    ELSE IF fault = "zshrc_read"
    THEN Raise(st)
    ELSE IF NotInContent(d, st.zshrc.text)
    THEN IF fault = "zshrc_append"
         THEN Raise(st)
         ELSE [st EXCEPT
                 !.zshrc.text = @ \o <<"\n">> \o FpathLine(d) \o <<"\n">>,
                 !.ops = @ \o << <<"append", Zshrc>> >>,
                 !.out = @ \o <<"Added completion directory to ~/.zshrc">>]
    ELSE st

\* Lines 187-196 without the test zshrc.exists() on line 190: opening the
\* file for appending creates it.
register_fpath_creates_zshrc(st, d, fault) ==
    IF OhMyZsh \in st.dirs
    THEN st
    ELSE IF st.zshrc.exists /\ fault = "zshrc_read"
    THEN Raise(st)
    ELSE IF NotInContent(d, st.zshrc.text)
    THEN IF fault = "zshrc_append"
         THEN Raise(st)
         ELSE [st EXCEPT
                 !.zshrc.exists = TRUE,
                 !.zshrc.text = @ \o <<"\n">> \o FpathLine(d) \o <<"\n">>,
                 !.ops = @ \o << <<"append", Zshrc>> >>,
                 !.out = @ \o <<"Added completion directory to ~/.zshrc">>]
    ELSE st

\* Lines 187-196: the registration of the completion directory d in ~/.zshrc.
register_fpath(st, d, fault) ==
    IF OhMyZsh \in st.dirs
    THEN st
    ELSE IF ~st.zshrc.exists
    THEN st
    ELSE IF fault = "zshrc_read"
    THEN Raise(st)
    ELSE IF NotInContent(d, st.zshrc.text)
    THEN IF fault = "zshrc_append"
         THEN Raise(st)
         ELSE [st EXCEPT
                 !.zshrc.text = @ \o <<"\n">> \o FpathLine(d) \o <<"\n">>,
                 !.ops = @ \o << <<"append", Zshrc>> >>,
                 !.out = @ \o <<"Added completion directory to ~/.zshrc">>]
    ELSE st

\* Lines 171-198 without the test of shutil.which("zsh").
zsh_completion_no_which(st, zsh_found, zsh_src, fault) ==
    LET probed == [st EXCEPT !.probes = @ \o <<"zsh">>]
        d == IF OhMyZsh \in st.dirs THEN OhMyZshCompDir ELSE ZshSiteDir
        made == [probed EXCEPT !.dirs = Mkdir(@, d),
                               !.ops = @ \o << <<"mkdir", d>> >>]
        copied == [made EXCEPT
                     !.files = @ \cup {d \o <<"_pyker">>},
                     !.ops = @ \o << <<"copy2", d \o <<"_pyker">> >> >>,
                     !.out = @ \o <<"Zsh completion installed">>]
    IN  IF MkdirFails(st.dirs, d, fault, "zsh_mkdir")
        THEN Raise(probed)
        ELSE IF zsh_src
        THEN IF fault = "zsh_copy2"
             THEN Raise(made)
             ELSE register_fpath(copied, d, fault)
        ELSE [made EXCEPT
                !.out = @ \o <<"Zsh completion file not found (optional)">>]

\* Lines 171-198: the zsh completion.
zsh_completion(st, zsh_found, zsh_src, fault) ==
    LET probed == [st EXCEPT !.probes = @ \o <<"zsh">>]
        d == IF OhMyZsh \in st.dirs THEN OhMyZshCompDir ELSE ZshSiteDir
        made == [probed EXCEPT !.dirs = Mkdir(@, d),
                               !.ops = @ \o << <<"mkdir", d>> >>]
        copied == [made EXCEPT
                     !.files = @ \cup {d \o <<"_pyker">>},
                     !.ops = @ \o << <<"copy2", d \o <<"_pyker">> >> >>,
                     !.out = @ \o <<"Zsh completion installed">>]
    IN  IF ~zsh_found
        THEN probed
        ELSE IF MkdirFails(st.dirs, d, fault, "zsh_mkdir")
        THEN Raise(probed)
        ELSE IF zsh_src
        THEN IF fault = "zsh_copy2"
             THEN Raise(made)
             ELSE register_fpath(copied, d, fault)
        ELSE [made EXCEPT
                !.out = @ \o <<"Zsh completion file not found (optional)">>]

\* setup_completions(): fs = [dirs, files, zshrc]; bash_src and zsh_src tell
\* whether the completion files exist in the working directory, zsh_found
\* whether zsh is on the search path.
setup_completions(fs, bash_src, zsh_found, zsh_src, fault) ==
    LET st0 == [exc |-> "none", dirs |-> fs.dirs, files |-> fs.files,
                zshrc |-> fs.zshrc, ops |-> <<>>, probes |-> <<>>,
                out |-> <<"Setting up shell completions...">>]
        bash == bash_completion(st0, bash_src, fault)
    IN  IF bash.exc # "none"
        THEN bash
        ELSE zsh_completion(bash, zsh_found, zsh_src, fault)

\* ------------------------------------------------------------- check_path
\* Values of $PATH: unset or empty, without the binary directory, with it as
\* one entry, and with it only as part of a longer entry.
UsrBin == <<"/", "usr", "/", "bin">>
PathEnvs == { <<>>, UsrBin, UsrBin \o <<":">> \o PathStr(LocalBin),
              PathStr(LocalBin \o <<"old">>) \o <<":">> \o UsrBin }

\* check_path() looking for the directory's last component only.
check_path_short_needle(local_bin, env) ==
    IF Contains(<<"/", local_bin[Len(local_bin)]>>, env)
    THEN [ok |-> TRUE, out |-> <<"~/.local/bin is already in PATH">>]
    ELSE [ok |-> FALSE,
          out |-> << "Warning: ~/.local/bin is not in PATH",
                     "Add this line to your ~/.bashrc or ~/.zshrc:",
                     "export PATH=\"$HOME/.local/bin:$PATH\"",
                     "Then restart your terminal or run: source ~/.bashrc" >>]

\* check_path(local_bin): the result is [ok, out].
check_path(local_bin, env) ==
    IF Contains(PathStr(local_bin), env)
    THEN [ok |-> TRUE, out |-> <<"~/.local/bin is already in PATH">>]
    ELSE [ok |-> FALSE,
          out |-> << "Warning: ~/.local/bin is not in PATH",
                     "Add this line to your ~/.bashrc or ~/.zshrc:",
                     "export PATH=\"$HOME/.local/bin:$PATH\"",
                     "Then restart your terminal or run: source ~/.bashrc" >>]

\* Lines 212-228 of main(): the closing summary.
summary(ok) ==
    << "Installation completed!", "Usage:", "Example:" >>
    \o (IF ok THEN <<>>
        ELSE <<"Important: Restart your terminal or update PATH manually">>)

\* ------------------------------------------------------------------ main
\* ~/.zshrc before the first run: absent, or up to MaxChunks pieces of text.
\* The completion directory string occurs in a text only where its two
\* halves follow one another.
Chunks == { <<"# comment", "\n">>,
            PathStr(SubSeq(ZshSiteDir, 1, Len(ZshSiteDir) - 1)),
            <<"/", ZshSiteDir[Len(ZshSiteDir)]>> }

RECURSIVE Texts(_)
Texts(n) ==
    IF n = 0 THEN {<<>>}
    ELSE Texts(n - 1) \cup {t \o c : t \in Texts(n - 1), c \in Chunks}

ZshrcStates == {[exists |-> FALSE, text |-> <<>>]}
                   \cup {[exists |-> TRUE, text |-> t] : t \in Texts(MaxChunks)}

\* What a run has read and logged when the process starts.
FreshProcess ==
    /\ pc = "check_not_root"
    /\ failed_at = ""
    /\ raised = "none"
    /\ exit_code = -1
    /\ euid = -1
    /\ version = <<0, 0>>
    /\ importable = FALSE
    /\ on_path = {}
    /\ payload = -1
    /\ path_env = <<>>
    /\ path_ok = FALSE
    /\ subprocs = <<>>
    /\ probes = <<>>
    /\ zsh_on_path = FALSE
    /\ ops = <<>>
    /\ out = <<>>

\* A home directory the installer has never run on, with or without
\* oh-my-zsh and a ~/.zshrc.
Init ==
    /\ FreshProcess
    /\ run = 1
    /\ dirs \in {{Home}, {Home, OhMyZsh}}
    /\ files = {}
    /\ pyker_mode = 0
    /\ zshrc \in ZshrcStates
    /\ zshrc_first = zshrc

\* The call `step` ended with exc: main() goes on to `next`, or the process
\* ends: sys.exit(1) and an uncaught exception both give exit code 1.
Finish(step, exc, next) ==
    IF exc = "none"
    THEN /\ pc' = next
         /\ UNCHANGED << failed_at, raised, exit_code >>
    ELSE /\ pc' = "aborted"
         /\ failed_at' = step
         /\ raised' = exc
         /\ exit_code' = ExitFail

\* Lines 201-204.
CheckNotRoot ==
    /\ pc = "check_not_root"
    /\ \E uid \in Euids :
        LET r == check_not_root(uid)
        IN  /\ euid' = uid
            /\ out' = << "Pyker - Simple Python Process Manager",
                         "==================================================" >>
                      \o r.out
            /\ Finish("check_not_root", r.exc, "check_python")
    /\ UNCHANGED << run, version, importable, on_path, payload, path_env,
                    path_ok, dirs, files, pyker_mode, zshrc, zshrc_first,
                    subprocs, probes, ops,
                    zsh_on_path >>

\* Line 205.
CheckPython ==
    /\ pc = "check_python"
    /\ \E ver \in Versions :
        LET r == check_python(ver)
        IN  /\ version' = ver
            /\ out' = out \o r.out
            /\ Finish("check_python", r.exc, "install_psutil")
    /\ UNCHANGED << run, euid, importable, on_path, payload, path_env,
                    path_ok, dirs, files, pyker_mode, zshrc, zshrc_first,
                    subprocs, probes, ops,
                    zsh_on_path >>

\* Line 206.
InstallPsutil ==
    /\ pc = "install_psutil"
    /\ \E imp \in BOOLEAN, avail \in SearchPaths, exit_zero \in ExitZeroSets :
        LET r == install_psutil(version, imp, avail, exit_zero)
        IN  /\ importable' = imp
            /\ on_path' = IF imp THEN on_path ELSE avail
            /\ subprocs' = subprocs \o r.calls
            /\ probes' = probes \o r.probes
            /\ out' = out \o r.out
            /\ Finish("install_psutil", r.exc, "install_pyker")
    /\ UNCHANGED << run, euid, version, payload, path_env, path_ok, dirs,
                    files, pyker_mode, zshrc, zshrc_first, ops,
                    zsh_on_path >>

\* Line 207.
InstallPyker ==
    /\ pc = "install_pyker"
    /\ \E src_mode \in {0} \cup SourceModes, fault \in PykerFaults :
        LET r == install_pyker([dirs |-> dirs, files |-> files,
                                mode |-> pyker_mode], src_mode, fault)
        IN  /\ payload' = src_mode
            /\ dirs' = r.dirs
            /\ files' = r.files
            /\ pyker_mode' = r.mode
            /\ ops' = ops \o r.ops
            /\ out' = out \o r.out
            /\ Finish("install_pyker", r.exc, "create_pyker_dir")
    /\ UNCHANGED << run, euid, version, importable, on_path, path_env,
                    path_ok, zshrc, zshrc_first, subprocs, probes,
                    zsh_on_path >>

\* Line 208.
CreatePykerDir ==
    /\ pc = "create_pyker_dir"
    /\ \E fault \in DirFaults :
        LET r == create_pyker_dir(dirs, fault)
        IN  /\ dirs' = r.dirs
            /\ ops' = ops \o r.ops
            /\ out' = out \o r.out
            /\ Finish("create_pyker_dir", r.exc, "setup_completions")
    /\ UNCHANGED << run, euid, version, importable, on_path, payload,
                    path_env, path_ok, files, pyker_mode, zshrc, zshrc_first,
                    subprocs, probes,
                    zsh_on_path >>

\* Line 209.
SetupCompletions ==
    /\ pc = "setup_completions"
    /\ \E bash_src \in BOOLEAN, zsh_found \in BOOLEAN, zsh_src \in BOOLEAN,
          fault \in CompletionFaults :
        LET r == setup_completions([dirs |-> dirs, files |-> files,
                                    zshrc |-> zshrc],
                                   bash_src, zsh_found, zsh_src, fault)
        IN  /\ dirs' = r.dirs
            /\ files' = r.files
            /\ zshrc' = r.zshrc
            /\ ops' = ops \o r.ops
            /\ probes' = probes \o r.probes
            /\ zsh_on_path' = ("zsh" \in Range(r.probes) /\ zsh_found)
            /\ out' = out \o r.out
            /\ Finish("setup_completions", r.exc, "check_path")
    /\ UNCHANGED << run, euid, version, importable, on_path, payload,
                    path_env, path_ok, pyker_mode, zshrc_first, subprocs >>

\* Line 210.
CheckPath ==
    /\ pc = "check_path"
    /\ \E env \in PathEnvs :
        LET r == check_path(LocalBin, env)
        IN  /\ path_env' = env
            /\ path_ok' = r.ok
            /\ out' = out \o r.out
    /\ pc' = "summary"
    /\ UNCHANGED << failed_at, raised, exit_code, run, euid, version,
                    importable, on_path, payload, dirs, files, pyker_mode,
                    zshrc, zshrc_first, subprocs, probes, ops,
                    zsh_on_path >>

\* Lines 212-228: main() prints the summary and returns; exit code 0.
Summary ==
    /\ pc = "summary"
    /\ out' = out \o summary(path_ok)
    /\ pc' = "done"
    /\ exit_code' = ExitOk
    /\ UNCHANGED << failed_at, raised, run, euid, version, importable,
                    on_path, payload, path_env, path_ok, dirs, files,
                    pyker_mode, zshrc, zshrc_first, subprocs, probes, ops,
                    zsh_on_path >>

\* The installer is started again on the same home directory.
Rerun ==
    /\ pc \in {"done", "aborted"}
    /\ run < MaxRuns
    /\ run' = run + 1
    /\ pc' = "check_not_root"
    /\ failed_at' = ""
    /\ raised' = "none"
    /\ exit_code' = -1
    /\ euid' = -1
    /\ version' = <<0, 0>>
    /\ importable' = FALSE
    /\ on_path' = {}
    /\ payload' = -1
    /\ path_env' = <<>>
    /\ path_ok' = FALSE
    /\ subprocs' = <<>>
    /\ probes' = <<>>
    /\ zsh_on_path' = FALSE
    /\ ops' = <<>>
    /\ out' = <<>>
    /\ UNCHANGED << dirs, files, pyker_mode, zshrc, zshrc_first >>

Next ==
    \/ CheckNotRoot
    \/ CheckPython
    \/ InstallPsutil
    \/ InstallPyker
    \/ CreatePykerDir
    \/ SetupCompletions
    \/ CheckPath
    \/ Summary
    \/ Rerun

Spec == Init /\ [][Next]_vars

\* ----------------------------------------------------------------- claims
ManagerTools == Range(InstallMethods) \cup {"pipx"}

\* C1: a run ends aborted, with a non-zero exit code, only through
\* sys.exit in check_not_root or check_python, exhaustion in install_psutil,
\* or the missing payload or the failed copy in install_pyker; no failure in
\* create_pyker_dir, setup_completions or check_path ends the run; a run that
\* ends done exits with code 0.
C1_OnlyFatalStepsAbort ==
    /\ pc = "aborted" =>
        /\ exit_code # 0
        /\ raised = "SystemExit"
        /\ failed_at \in {"check_not_root", "check_python", "install_psutil",
                          "install_pyker"}
    /\ pc = "done" => exit_code = 0

\* C2: a failed attempt of a strategy that is not the last one does not end
\* install_psutil: when the resolver gives up, it has gone through every
\* package manager candidate and pipx, and it gives up by exhaustion.
C2_FailedAttemptGoesOn ==
    (pc = "aborted" /\ failed_at = "install_psutil") =>
        /\ raised = "SystemExit"
        /\ probes = InstallMethods \o <<"pipx">>

\* C4: when psutil imports, install_psutil returns to main() having started
\* no subprocess and looked up no package manager on the search path.
C4_PresentNoSubprocess ==
    (Acted("install_psutil") /\ importable) =>
        /\ Returned("install_psutil")
        /\ subprocs = <<>>
        /\ Range(probes) \cap ManagerTools = {}

C4_Witness ==
    /\ pc = "install_pyker"
    /\ importable
    /\ subprocs = <<>>
    /\ probes = <<>>

\* The manual commands as the claim C5 lists them: the four system package
\* managers, then the virtual environment.
C5_ClaimedCommands ==
    << "sudo apt install python3-psutil",
       "sudo yum install python3-psutil",
       "sudo dnf install python3-psutil",
       "sudo pacman -S python-psutil",
       "python3 -m venv venv && venv/bin/pip install psutil" >>

\* C5: when psutil does not import and neither a package manager nor pipx is
\* on the search path, install_psutil ends the run by sys.exit with a non-zero
\* code, and the last lines printed are the manual commands: the four package
\* managers, then the virtual environment.
C5_ExhaustionPrintsRemediation ==
    (Acted("install_psutil") /\ ~importable /\ on_path \cap ManagerTools = {}) =>
        /\ pc = "aborted"
        /\ failed_at = "install_psutil"
        /\ exit_code # 0
        /\ raised = "SystemExit"
        /\ Len(out) >= Len(C5_ClaimedCommands)
        /\ SubSeq(out, Len(out) - Len(C5_ClaimedCommands) + 1, Len(out))
               = C5_ClaimedCommands

\* C6: when the effective uid is 0 or the version is below 3.6, the run has
\* ended with a non-zero exit code, and it has performed no file operation
\* and started no subprocess.
C6_PreflightAbortNoEffect ==
    (\/ Acted("check_not_root") /\ euid = 0
     \/ Acted("check_python") /\ VersionLess(version, <<3, 6>>)) =>
        /\ pc = "aborted"
        /\ exit_code > 0
        /\ ops = <<>>
        /\ subprocs = <<>>
        /\ probes = <<>>

C6_Witness ==
    /\ pc = "aborted"
    /\ failed_at = "check_python"
    /\ version = <<3, 5>>
    /\ euid # 0
    /\ exit_code = ExitFail

\* C7: when pyker.py is absent, install_pyker ends the run with a non-zero
\* exit code without having created ~/.local/bin.
C7_MissingPayloadNoBinDir ==
    (Acted("install_pyker") /\ payload = 0) =>
        /\ pc = "aborted"
        /\ failed_at = "install_pyker"
        /\ exit_code > 0
        /\ <<"mkdir", LocalBin>> \notin Range(ops)
        /\ (run = 1 => LocalBin \notin dirs)

C7_Witness ==
    /\ pc = "aborted"
    /\ failed_at = "install_pyker"
    /\ payload = 0
    /\ LocalBin \notin dirs
    /\ exit_code = ExitFail

\* C8: when install_pyker returns, ~/.local/bin/pyker exists with mode 0755,
\* whatever the mode of pyker.py; when the copy or the chmod failed, the run
\* has ended with a non-zero exit code and no later step has run.
C8_InstalledMode ==
    /\ Returned("install_pyker") =>
        /\ payload \in SourceModes
        /\ TargetPath \in files
        /\ pyker_mode = Mode0755
    /\ "Error copying file" \in Range(out) =>
        /\ pc = "aborted"
        /\ failed_at = "install_pyker"
        /\ exit_code > 0
        /\ <<"mkdir", LogsDir>> \notin Range(ops)
        /\ "zsh" \notin Range(probes)
        /\ "Setting up shell completions..." \notin Range(out)

C8_Witness ==
    /\ pc = "create_pyker_dir"
    /\ payload = 420
    /\ pyker_mode = Mode0755
    /\ TargetPath \in files

\* C9: no failure inside setup_completions ends the run, and the lookup of
\* zsh happens whatever became of the bash completion.
C9_CompletionsNeverAbort ==
    /\ failed_at # "setup_completions"
    /\ Acted("setup_completions") => "zsh" \in Range(probes)

\* C10: over any number of runs on the same home directory, ~/.zshrc gains
\* the fpath line at most once, and it gains nothing when the completion
\* directory string occurred in it before the first run.
C10_FpathAtMostOnce ==
    LET line == FpathLine(ZshSiteDir)
    IN  /\ Occurrences(line, zshrc.text)
               <= Occurrences(line, zshrc_first.text) + 1
        /\ \/ zshrc.text = zshrc_first.text
           \/ zshrc.text = zshrc_first.text \o <<"\n">> \o line \o <<"\n">>
        /\ Contains(PathStr(ZshSiteDir), zshrc_first.text) => zshrc = zshrc_first

\* A later run has installed the zsh completion outside oh-my-zsh and left
\* the line an earlier run appended alone.
C10_Witness ==
    /\ run >= 2
    /\ pc = "check_path"
    /\ "Zsh completion installed" \in Range(out)
    /\ OhMyZsh \notin dirs
    /\ <<"append", Zshrc>> \notin Range(ops)
    /\ Occurrences(FpathLine(ZshSiteDir), zshrc.text) = 1
    /\ zshrc.text # zshrc_first.text

\* The three directories of the installation.
ProvisionedDirs == {LocalBin, PykerDir, LogsDir}

\* C11: where ~/.local/bin, ~/.pyker and ~/.pyker/logs exist, the step that
\* calls setup_local_bin leaves the set of directories as it is and ends with
\* no error of mkdir, and create_pyker_dir leaves the directories and every
\* file as they are and returns to main().
C11_ProvisionIdempotent ==
    [][ /\ (pc = "install_pyker" /\ ProvisionedDirs \subseteq dirs) =>
            /\ dirs' = dirs
            /\ raised' # "OSError"
            /\ zshrc' = zshrc
        /\ (pc = "create_pyker_dir" /\ ProvisionedDirs \subseteq dirs) =>
            /\ pc' = "setup_completions"
            /\ dirs' = dirs
            /\ files' = files
            /\ pyker_mode' = pyker_mode
            /\ zshrc' = zshrc ]_vars

\* A later run has gone through both steps on a home directory on which an
\* earlier run had got as far as the completions.
C11_Witness ==
    /\ run >= 2
    /\ pc = "setup_completions"
    /\ BashCompDir \in dirs
    /\ ProvisionedDirs \subseteq dirs
    /\ <<"mkdir", LocalBin>> \in Range(ops)
    /\ <<"mkdir", LogsDir>> \in Range(ops)

\* The first position of x in the sequence q (0: none).
FirstIndex(q, x) ==
    IF x \in Range(q)
    THEN CHOOSE i \in DOMAIN q : q[i] = x /\ \A j \in 1..(i - 1) : q[j] # x
    ELSE 0

\* x occurs in q, and before the first y when y occurs too.
Before(q, x, y) ==
    /\ x \in Range(q)
    /\ y \in Range(q) => FirstIndex(q, x) < FirstIndex(q, y)

ExportLine == "export PATH=\"$HOME/.local/bin:$PATH\""
SummaryHead == "Installation completed!"
RestartReminder == "Important: Restart your terminal or update PATH manually"

\* What main() printed as its summary: the output from the banner on.
SummaryPart(q) ==
    IF SummaryHead \in Range(q)
    THEN SubSeq(q, FirstIndex(q, SummaryHead), Len(q))
    ELSE <<>>

\* C12 as stated: when $PATH does not contain the binary directory's string,
\* the run ends with code 0, the flag is FALSE and the summary that main()
\* prints includes the export line.
C12_ExportLineInSummary ==
    (pc = "done" /\ ~Contains(PathStr(LocalBin), path_env)) =>
        /\ path_ok = FALSE
        /\ exit_code = 0
        /\ ExportLine \in Range(SummaryPart(out))

\* C12 as amended: when $PATH does not contain the binary directory's string,
\* check_path returns FALSE, prints the export line itself and changes no
\* directory, no file and no log of operations; main() then prints its
\* summary after that line, ending with the restart reminder and without the
\* export line, and the run exits with code 0.
C12_PathWarning ==
    [][ /\ (pc = "check_path" /\ ~Contains(PathStr(LocalBin), path_env')) =>
            /\ pc' = "summary"
            /\ path_ok' = FALSE
            /\ ExportLine \in Range(out')
            /\ ExportLine \notin Range(out)
            /\ UNCHANGED << dirs, files, pyker_mode, zshrc, ops, subprocs,
                            probes >>
        /\ (pc = "summary" /\ ~path_ok) =>
            /\ pc' = "done"
            /\ exit_code' = ExitOk
            /\ Before(out', ExportLine, SummaryHead)
            /\ ExportLine \notin Range(SummaryPart(out'))
            /\ out'[Len(out')] = RestartReminder
            /\ UNCHANGED << dirs, files, pyker_mode, zshrc, ops, subprocs,
                            probes >> ]_vars

C12_Witness ==
    /\ pc = "done"
    /\ path_env = UsrBin
    /\ ~path_ok
    /\ exit_code = ExitOk
    /\ ExportLine \in Range(out)

\* C13 as stated: all three directories of the installation are created
\* before the payload is copied, so they exist once it has been copied.
C13_DirsBeforePayload ==
    <<"copy2", TargetPath>> \in Range(ops) =>
        /\ Before(ops, <<"mkdir", LocalBin>>, <<"copy2", TargetPath>>)
        /\ Before(ops, <<"mkdir", LogsDir>>, <<"copy2", TargetPath>>)
        /\ ProvisionedDirs \subseteq dirs

\* The first message of each call of main(), in the order of lines 201-212.
StepMarks ==
    << "Pyker - Simple Python Process Manager",
       "Python 3 is available",
       "Installing psutil dependency...",
       "Installing Pyker...",
       "~/.pyker directory structure created",
       "Setting up shell completions...",
       SummaryHead >>

PathMessages == {"~/.local/bin is already in PATH",
                 "Warning: ~/.local/bin is not in PATH"}

\* C13 as amended: the calls happen in the order check_not_root,
\* check_python, install_psutil, install_pyker, create_pyker_dir,
\* setup_completions, check_path, summary; ~/.local/bin is created before the
\* payload is copied, ~/.pyker/logs only after it, and the completion
\* directories after that.
C13_StepOrder ==
    /\ \A i \in 2..Len(StepMarks) :
          StepMarks[i] \in Range(out) => Before(out, StepMarks[i - 1], StepMarks[i])
    /\ \A m \in PathMessages :
          m \in Range(out) => Before(out, "Setting up shell completions...", m)
    /\ SummaryHead \in Range(out) =>
          \E m \in PathMessages : Before(out, m, SummaryHead)
    /\ <<"copy2", TargetPath>> \in Range(ops) =>
          /\ Before(ops, <<"mkdir", LocalBin>>, <<"copy2", TargetPath>>)
          /\ LocalBin \in dirs
    /\ <<"mkdir", LogsDir>> \in Range(ops) =>
          Before(ops, <<"copy2", TargetPath>>, <<"mkdir", LogsDir>>)
    /\ <<"mkdir", BashCompDir>> \in Range(ops) =>
          Before(ops, <<"mkdir", LogsDir>>, <<"mkdir", BashCompDir>>)

\* The payload has been copied on a home directory that has ~/.local/bin and
\* not yet ~/.pyker.
C13_Witness ==
    /\ run = 1
    /\ pc = "create_pyker_dir"
    /\ <<"copy2", TargetPath>> \in Range(ops)
    /\ LocalBin \in dirs
    /\ PykerDir \notin dirs
    /\ LogsDir \notin dirs

NotFoundNotices == {"Bash completion file not found (optional)",
                    "Zsh completion file not found (optional)"}

\* How many "not found (optional)" notices the sequence of messages holds.
CountNotices(q) == Cardinality({i \in DOMAIN q : q[i] \in NotFoundNotices})

\* The first run on the home directory, with psutil importable and pyker.py
\* present, has installed no completion file.
C14_Scenario ==
    /\ run = 1
    /\ Acted("install_pyker")
    /\ importable
    /\ payload \in SourceModes
    /\ "Bash completion installed" \notin Range(out)
    /\ "Zsh completion installed" \notin Range(out)

C14_Installed ==
    /\ ProvisionedDirs \subseteq dirs
    /\ TargetPath \in files
    /\ pyker_mode = Mode0755
    /\ exit_code = ExitOk

UnderHome(p) == Len(p) >= Len(Home) /\ SubSeq(p, 1, Len(Home)) = Home

\* C15: every directory created, every file copied, changed in mode or
\* appended to, and every directory and file the home directory holds, lies
\* under the home directory.
C15_AllUnderHome ==
    /\ \A i \in DOMAIN ops : UnderHome(ops[i][2])
    /\ \A p \in dirs \cup files : UnderHome(p)

C15_Witness ==
    /\ <<"mkdir", LogsDir>> \in Range(ops)
    /\ <<"chmod", TargetPath>> \in Range(ops)
    /\ <<"copy2", BashCompTarget>> \in Range(ops)
    /\ <<"append", Zshrc>> \in Range(ops)

\* The install commands in the order of lines 55-86, and the tool each needs.
StrategyOrder ==
    <<"pip --user", "sudo apt", "sudo yum", "sudo dnf", "sudo pacman", "pipx">>

StrategyTool == <<"pip", "apt", "yum", "dnf", "pacman", "pipx">>

\* C16: when psutil does not import, the install subprocesses started follow
\* the fixed order pip --user, apt, yum, dnf, pacman, pipx, each at most once;
\* none is started for a tool that is not on the search path; and when the
\* resolver ends without success it has gone through every later strategy
\* whose tool is on the search path.
C16_FixedOrder ==
    (Acted("install_psutil") /\ ~importable) =>
        /\ Range(subprocs) \subseteq Range(StrategyOrder)
        /\ \A i, j \in DOMAIN subprocs :
              i < j => FirstIndex(StrategyOrder, subprocs[i])
                           < FirstIndex(StrategyOrder, subprocs[j])
        /\ \A k \in 2..Len(StrategyOrder) :
              StrategyTool[k] \notin on_path
                  => StrategyOrder[k] \notin Range(subprocs)
        /\ ~Returned("install_psutil") =>
              \A k \in 2..Len(StrategyOrder) :
                  StrategyTool[k] \in on_path
                      => StrategyTool[k] \in Range(probes)

ZshCompDirs == {OhMyZshCompDir, ZshSiteDir}

\* C17 as stated: a shell whose completion source file is absent gets a
\* notice and its completion directory is not created.
C17_NoDirWithoutSource ==
    /\ "Bash completion file not found (optional)" \in Range(out)
           => <<"mkdir", BashCompDir>> \notin Range(ops)
    /\ "Zsh completion file not found (optional)" \in Range(out)
           => \A d \in ZshCompDirs : <<"mkdir", d>> \notin Range(ops)

\* C17 as amended: the notice of a shell comes after the creation of its
\* completion directory, and with the notice nothing is copied or registered
\* for that shell; when zsh is not on the search path the zsh part leaves
\* neither a notice nor a directory.
C17_DirBeforeNotice ==
    /\ "Bash completion file not found (optional)" \in Range(out) =>
          /\ <<"mkdir", BashCompDir>> \in Range(ops)
          /\ BashCompDir \in dirs
          /\ <<"copy2", BashCompTarget>> \notin Range(ops)
    /\ "Zsh completion file not found (optional)" \in Range(out) =>
          LET d == IF OhMyZsh \in dirs THEN OhMyZshCompDir ELSE ZshSiteDir
          IN  /\ zsh_on_path
              /\ <<"mkdir", d>> \in Range(ops)
              /\ d \in dirs
              /\ <<"copy2", d \o <<"_pyker">> >> \notin Range(ops)
              /\ <<"append", Zshrc>> \notin Range(ops)
    /\ (Returned("setup_completions") /\ ~zsh_on_path) =>
          /\ \A d \in ZshCompDirs : <<"mkdir", d>> \notin Range(ops)
          /\ "Zsh completion file not found (optional)" \notin Range(out)

C17_Witness ==
    /\ pc = "check_path"
    /\ run = 1
    /\ "Bash completion file not found (optional)" \in Range(out)
    /\ "Zsh completion file not found (optional)" \in Range(out)
    /\ BashCompDir \in dirs
    /\ ZshSiteDir \in dirs
    /\ files = {TargetPath}

\* C18: with the ~/.oh-my-zsh directory present, the zsh completion file is
\* installed as ~/.oh-my-zsh/completions/_pyker, nothing is created or copied
\* under ~/.local/share/zsh/site-functions, and ~/.zshrc stays as it was;
\* ~/.zshrc is appended to only when ~/.oh-my-zsh is absent.
C18_FrameworkNoRegistration ==
    /\ OhMyZsh \in dirs =>
          /\ zshrc = zshrc_first
          /\ ZshSiteDir \notin dirs
          /\ ZshSiteDir \o <<"_pyker">> \notin files
          /\ "Zsh completion installed" \in Range(out) =>
                /\ <<"copy2", OhMyZshCompDir \o <<"_pyker">> >> \in Range(ops)
                /\ OhMyZshCompDir \o <<"_pyker">> \in files
    /\ <<"append", Zshrc>> \in Range(ops) => OhMyZsh \notin dirs

C18_Witness ==
    /\ OhMyZsh \in dirs
    /\ "Zsh completion installed" \in Range(out)
    /\ OhMyZshCompDir \o <<"_pyker">> \in files
    /\ zshrc.exists
    /\ NotInContent(OhMyZshCompDir, zshrc.text)

\* The directories and files the installer creates.
CreatedPaths == ProvisionedDirs \cup {BashCompDir} \cup ZshCompDirs

\* C19: once the installer has created a directory or copied a file, the
\* uid was not 0, the version was at least 3.6 and install_psutil has
\* returned; a run that ends in install_psutil has made no file operation,
\* and on a fresh home directory leaves it as it was.
C19_NoEffectBeforeResolution ==
    /\ ops # <<>> =>
          /\ Returned("check_not_root") /\ euid # 0
          /\ Returned("check_python") /\ ~VersionLess(version, <<3, 6>>)
          /\ Returned("install_psutil")
    /\ (Acted("install_psutil") /\ ~Returned("install_psutil")) =>
          /\ ops = <<>>
          /\ run = 1 =>
                /\ dirs \cap CreatedPaths = {}
                /\ files = {}
                /\ pyker_mode = 0
                /\ zshrc = zshrc_first

C19_Witness ==
    /\ pc = "create_pyker_dir"
    /\ run = 1
    /\ euid # 0
    /\ <<"mkdir", LocalBin>> \in Range(ops)
    /\ <<"copy2", TargetPath>> \in Range(ops)
    /\ TargetPath \in files

\* C20: ~/.zshrc exists exactly when it existed before the first run; when it
\* did not, it has no content, nothing was appended and no registration was
\* announced, whatever was installed into the site-functions directory.
C20_ZshrcNeverCreated ==
    /\ zshrc.exists = zshrc_first.exists
    /\ ~zshrc_first.exists =>
          /\ zshrc.text = <<>>
          /\ <<"append", Zshrc>> \notin Range(ops)
          /\ "Added completion directory to ~/.zshrc" \notin Range(out)

C20_Witness ==
    /\ Returned("setup_completions")
    /\ ~zshrc.exists
    /\ OhMyZsh \notin dirs
    /\ "Zsh completion installed" \in Range(out)
    /\ ZshSiteDir \o <<"_pyker">> \in files

====
